---------------------------- MODULE Spec2Model ----------------------------
(***************************************************************************)
(* SwiftFetch native messaging host (SwiftFetch/Resources/native_host.py). *)
(*                                                                         *)
(* The host is one sequential process: main() loops over read_message(),   *)
(* dispatches on the type of the message, calls handle_download() for     *)
(* downloads and answers with write_message().  The model keeps the byte   *)
(* streams as sequences of byte values (0..255), the decoded text as       *)
(* sequences of code points and JSON values as tagged records, so that     *)
(* framing, UTF-8 decoding, JSON parsing and JSON serialisation are        *)
(* computed rather than assumed.                                           *)
(***************************************************************************)
EXTENDS Integers, Sequences, FiniteSets, TLC

(***************************************************************************)
(* Text.  A Python str is a sequence of code points; Ord gives the code    *)
(* point of a printable ASCII character and Txt the str of a tuple of      *)
(* characters.                                                             *)
(***************************************************************************)
Printable ==
   << " ", "!", "\"", "#", "$", "%", "&", "'", "(", ")", "*", "+", ",", "-", ".", "/",
      "0", "1", "2", "3", "4", "5", "6", "7", "8", "9", ":", ";", "<", "=", ">", "?",
      "@", "A", "B", "C", "D", "E", "F", "G", "H", "I", "J", "K", "L", "M", "N", "O",
      "P", "Q", "R", "S", "T", "U", "V", "W", "X", "Y", "Z", "[", "\\", "]", "^", "_",
      "grave", "a", "b", "c", "d", "e", "f", "g", "h", "i", "j", "k", "l", "m", "n", "o",
      "p", "q", "r", "s", "t", "u", "v", "w", "x", "y", "z", "{", "|", "}", "~" >>

Ord(c) == 31 + (CHOOSE i \in 1..Len(Printable) : Printable[i] = c)

Txt(chars) == [i \in 1..Len(chars) |-> Ord(chars[i])]

\* s[i], or -1 past the end of s
Ch(s, i) == IF i >= 1 /\ i <= Len(s) THEN s[i] ELSE -1

\* s[i:] of Python, i counted from 1
From(s, i) == SubSeq(s, i, Len(s))

\* F(v), with v evaluated once, before F is applied to it
Let(v, F(_)) == CHOOSE r \in { F(x) : x \in {v} } : TRUE

\* the least element of a set of numbers that is not empty
First(S) == CHOOSE k \in S : \A m \in S : k <= m

\* the concatenation of the sequences of ss
RECURSIVE Flatten(_)
Flatten(seqs) ==
   Let(seqs, LAMBDA ss :
      IF Len(ss) = 0 THEN <<>>
      ELSE IF Len(ss) = 1 THEN ss[1]
      ELSE Flatten(SubSeq(ss, 1, Len(ss) \div 2))
              \o Flatten(SubSeq(ss, (Len(ss) \div 2) + 1, Len(ss))))

(***************************************************************************)
(* Python values that json.loads returns and json.dumps accepts.  A dict   *)
(* is the sequence of its items in insertion order, keys distinct.         *)
(***************************************************************************)
None == [t |-> "null"]
PyBool(b) == [t |-> "bool", b |-> b]
PyInt(n) == [t |-> "int", n |-> n]
PyStr(s) == [t |-> "str", s |-> s]
PyList(xs) == [t |-> "list", xs |-> xs]
PyDict(kv) == [t |-> "dict", kv |-> kv]

\* a tuple: json.dumps accepts it, json.loads never returns one
PyTuple(xs) == [t |-> "tuple", xs |-> xs]

\* d[k] = v of a Python dict: a present key keeps its place
dict_set(kv, k, v) ==
   IF \E i \in 1..Len(kv) : kv[i].k = k
   THEN [i \in 1..Len(kv) |-> IF kv[i].k = k THEN [k |-> k, v |-> v] ELSE kv[i]]
   ELSE Append(kv, [k |-> k, v |-> v])

\* d.get(k, default); an AttributeError when d is no dict is raised in the caller
dict_get(d, k, default) ==
   IF \E i \in 1..Len(d.kv) : d.kv[i].k = k
   THEN d.kv[CHOOSE i \in 1..Len(d.kv) : d.kv[i].k = k].v
   ELSE default

\* bool(v) of Python: None, False, 0, '', [] and {} are false
truthy(v) ==
   CASE v.t = "null" -> FALSE
     [] v.t = "bool" -> v.b
     [] v.t = "int"  -> v.n # 0
     [] v.t = "str"  -> v.s # <<>>
     [] v.t = "list" -> v.xs # <<>>
     [] v.t = "dict" -> v.kv # <<>>

RECURSIVE digits(_)
digits(n0) ==
   Let(n0, LAMBDA n :
      IF n < 10 THEN <<48 + n>> ELSE Append(digits(n \div 10), 48 + (n % 10)))

\* str(n) of an int
int_str(n) == IF n < 0 THEN <<45>> \o digits(0 - n) ELSE digits(n)

sNone == Txt(<<"N","o","n","e">>)
sTrue == Txt(<<"T","r","u","e">>)
sFalse == Txt(<<"F","a","l","s","e">>)

\* str(v), as the f-string of the unknown-type message formats it
py_str(v) ==
   CASE v.t = "str"  -> v.s
     [] v.t = "int"  -> int_str(v.n)
     [] v.t = "null" -> sNone
     [] v.t = "bool" -> IF v.b THEN sTrue ELSE sFalse

\* a packer that writes the most significant byte first
struct_pack_big_endian(n) ==
   << (n \div 16777216) % 256, (n \div 65536) % 256, (n \div 256) % 256, n % 256 >>

(***************************************************************************)
(* struct.pack('I', n) and struct.unpack('I', b): four bytes, least        *)
(* significant first.                                                      *)
(***************************************************************************)
struct_pack(n) ==
   << n % 256, (n \div 256) % 256, (n \div 65536) % 256, (n \div 16777216) % 256 >>

struct_unpack(b) == b[1] + 256 * b[2] + 65536 * b[3] + 16777216 * b[4]

(***************************************************************************)
(* bytes.decode('utf-8'): the code points of a well-formed UTF-8 sequence, *)
(* a fault on anything else (a stray continuation byte, an overlong or     *)
(* surrogate encoding, a sequence cut short).                              *)
(***************************************************************************)
Cont(x) == x >= 128 /\ x <= 191

RECURSIVE utf8_from(_, _, _)
utf8_from(bytes, from, sofar) ==
   Let(<<bytes, from, sofar>>, LAMBDA a :
      LET b == a[1]
          i == a[2]
          acc == a[3]
          b0 == Ch(b, i)
          b1 == Ch(b, i + 1)
          b2 == Ch(b, i + 2)
          b3 == Ch(b, i + 3)
          \* the end of the run of ASCII bytes that starts at i
          j == First({ k \in i..Len(b) : b[k] >= 128 } \cup {Len(b) + 1})
      IN  IF b0 = -1 THEN [ok |-> TRUE, s |-> acc]
          ELSE IF b0 < 128 THEN utf8_from(b, j, acc \o SubSeq(b, i, j - 1))
          ELSE IF b0 >= 194 /\ b0 <= 223 /\ Cont(b1)
               THEN utf8_from(b, i + 2, Append(acc, (b0 - 192) * 64 + (b1 - 128)))
          ELSE IF /\ b0 >= 224 /\ b0 <= 239 /\ Cont(b1) /\ Cont(b2)
                  /\ (b0 = 224 => b1 >= 160)
                  /\ (b0 = 237 => b1 <= 159)
               THEN utf8_from(b, i + 3,
                       Append(acc, (b0 - 224) * 4096 + (b1 - 128) * 64 + (b2 - 128)))
          ELSE IF /\ b0 >= 240 /\ b0 <= 244 /\ Cont(b1) /\ Cont(b2) /\ Cont(b3)
                  /\ (b0 = 240 => b1 >= 144)
                  /\ (b0 = 244 => b1 <= 143)
               THEN utf8_from(b, i + 4,
                       Append(acc, (b0 - 240) * 262144 + (b1 - 128) * 4096
                                   + (b2 - 128) * 64 + (b3 - 128)))
          ELSE [ok |-> FALSE])

utf8_decode(b) == utf8_from(b, 1, <<>>)

(***************************************************************************)
(* json.loads(text): the parser of the json module on the grammar the      *)
(* inputs of the model use: objects, arrays, strings with their escapes,    *)
(* integers, true, false and null, with white space between tokens.  A      *)
(* result is [ok |-> TRUE, val, pos] (pos: the index after the value) or    *)
(* Fail (JSONDecodeError).  Numbers with a fraction or an exponent are not  *)
(* modelled; no input of the model holds one.                               *)
(***************************************************************************)
Fail == [ok |-> FALSE]
Ok(v, p) == [ok |-> TRUE, val |-> v, pos |-> p]

WS == {32, 9, 10, 13}

\* the index of the first character of s at or after i that is not white space
skip_ws(s, i) ==
   CHOOSE j \in i..(Len(s) + 1) :
      /\ Ch(s, j) \notin WS
      /\ \A k \in i..(j - 1) : Ch(s, k) \in WS

HexVal(c) ==
   IF c >= 48 /\ c <= 57 THEN c - 48
   ELSE IF c >= 97 /\ c <= 102 THEN c - 87
   ELSE IF c >= 65 /\ c <= 70 THEN c - 55
   ELSE -1

\* the value of the four hex digits s[i..i+3], -1 when they are not four hex digits
hex4(s, i) ==
   LET h == [k \in 0..3 |-> HexVal(Ch(s, i + k))]
   IN  IF \E k \in 0..3 : h[k] = -1 THEN -1
       ELSE h[0] * 4096 + h[1] * 256 + h[2] * 16 + h[3]

\* the character a backslash escape stands for, -1 when it is none of the short ones
Unescape(e) ==
   CASE e = 34 -> 34
     [] e = 92 -> 92
     [] e = 47 -> 47
     [] e = 98 -> 8
     [] e = 102 -> 12
     [] e = 110 -> 10
     [] e = 114 -> 13
     [] e = 116 -> 9
     [] OTHER -> -1

\* py_scanstring (strict): from is the index after the opening quote
RECURSIVE scanstring(_, _, _)
scanstring(text, from, sofar) ==
   Let(<<text, from, sofar>>, LAMBDA a :
      LET s == a[1]
          i == a[2]
          acc == a[3]
          c == Ch(s, i)
          e == Ch(s, i + 1)
          u == hex4(s, i + 2)
          u2 == IF Ch(s, i + 6) = 92 /\ Ch(s, i + 7) = 117 THEN hex4(s, i + 8) ELSE -1
          Plain(x) == x >= 32 /\ x # 34 /\ x # 92
          \* STRINGCHUNK: the end of the run of plain characters that starts at i
          j == First({ k \in i..Len(s) : ~Plain(s[k]) } \cup {Len(s) + 1})
      IN  IF c < 32 THEN Fail
          ELSE IF c = 34 THEN Ok(acc, i + 1)
          ELSE IF c # 92 THEN scanstring(s, j, acc \o SubSeq(s, i, j - 1))
          ELSE IF Unescape(e) # -1 THEN scanstring(s, i + 2, Append(acc, Unescape(e)))
          ELSE IF e = 117 /\ u # -1
               THEN IF u >= 55296 /\ u <= 56319 /\ u2 >= 56320 /\ u2 <= 57343
                    THEN scanstring(s, i + 12,
                            Append(acc, 65536 + (u - 55296) * 1024 + (u2 - 56320)))
                    ELSE scanstring(s, i + 6, Append(acc, u))
          ELSE Fail)

IsDigit(c) == c >= 48 /\ c <= 57

RECURSIVE scan_digits(_, _, _)
scan_digits(text, from, sofar) ==
   Let(<<text, from, sofar>>, LAMBDA a :
      LET s == a[1]
          i == a[2]
          n == a[3]
      IN  IF IsDigit(Ch(s, i)) THEN scan_digits(s, i + 1, 10 * n + (Ch(s, i) - 48))
          ELSE Ok(n, i))

\* NUMBER_RE, its integer part: -?(0|[1-9][0-9]*)
scan_number(s, i) ==
   LET neg == Ch(s, i) = 45
       j == IF neg THEN i + 1 ELSE i
   IN  IF Ch(s, j) = 48 THEN Ok(PyInt(0), j + 1)
       ELSE IF IsDigit(Ch(s, j))
            THEN Let(scan_digits(s, j, 0), LAMBDA r :
                    Ok(PyInt(IF neg THEN 0 - r.val ELSE r.val), r.pos))
       ELSE Fail

Matches(s, i, lit) == \A k \in 1..Len(lit) : Ch(s, i + k - 1) = lit[k]

sNull == Txt(<<"n","u","l","l">>)
sTrueLit == Txt(<<"t","r","u","e">>)
sFalseLit == Txt(<<"f","a","l","s","e">>)

RECURSIVE scan_once(_, _)
RECURSIVE JSONObject(_, _, _)
RECURSIVE JSONArray(_, _, _)

\* JSONObject: at is the index of the opening quote of the next key
JSONObject(text, at, items) ==
   Let(<<text, at, items, scanstring(text, at + 1, <<>>)>>, LAMBDA a :
      LET s == a[1]
          kv == a[3]
          key == a[4]
      IN  IF ~key.ok THEN Fail
          ELSE Let(skip_ws(s, key.pos), LAMBDA c :
             IF Ch(s, c) # 58 THEN Fail
             ELSE Let(scan_once(s, skip_ws(s, c + 1)), LAMBDA v :
                IF ~v.ok THEN Fail
                ELSE Let(skip_ws(s, v.pos), LAMBDA e :
                   IF Ch(s, e) = 125
                   THEN Ok(PyDict(dict_set(kv, key.val, v.val)), e + 1)
                   ELSE IF Ch(s, e) = 44 /\ Ch(s, skip_ws(s, e + 1)) = 34
                   THEN JSONObject(s, skip_ws(s, e + 1), dict_set(kv, key.val, v.val))
                   ELSE Fail))))

\* JSONArray: at is the index of the next element
JSONArray(text, at, elems) ==
   Let(<<text, elems, scan_once(text, at)>>, LAMBDA a :
      LET s == a[1]
          xs == a[2]
          v == a[3]
      IN  IF ~v.ok THEN Fail
          ELSE Let(skip_ws(s, v.pos), LAMBDA e :
             IF Ch(s, e) = 93 THEN Ok(PyList(Append(xs, v.val)), e + 1)
             ELSE IF Ch(s, e) = 44
             THEN JSONArray(s, skip_ws(s, e + 1), Append(xs, v.val))
             ELSE Fail))

scan_once(text, at) ==
   Let(<<text, at>>, LAMBDA a :
      LET s == a[1]
          i == a[2]
          c == Ch(s, i)
          j == skip_ws(s, i + 1)
      IN  IF c = 34
          THEN Let(scanstring(s, i + 1, <<>>), LAMBDA str :
                  IF str.ok THEN Ok(PyStr(str.val), str.pos) ELSE Fail)
          ELSE IF c = 123
               THEN IF Ch(s, j) = 125 THEN Ok(PyDict(<<>>), j + 1)
                    ELSE IF Ch(s, j) = 34 THEN JSONObject(s, j, <<>>)
                    ELSE Fail
          ELSE IF c = 91
               THEN IF Ch(s, j) = 93 THEN Ok(PyList(<<>>), j + 1)
                    ELSE JSONArray(s, j, <<>>)
          ELSE IF c = 110 /\ Matches(s, i, sNull) THEN Ok(None, i + 4)
          ELSE IF c = 116 /\ Matches(s, i, sTrueLit) THEN Ok(PyBool(TRUE), i + 4)
          ELSE IF c = 102 /\ Matches(s, i, sFalseLit) THEN Ok(PyBool(FALSE), i + 5)
          ELSE scan_number(s, i))

\* JSONDecoder.decode: one value, white space around it, nothing after it
json_loads(text) ==
   Let(text, LAMBDA s :
      Let(scan_once(s, skip_ws(s, 1)), LAMBDA r :
         IF r.ok /\ skip_ws(s, r.pos) = Len(s) + 1 THEN r ELSE Fail))

(***************************************************************************)
(* json.dumps(value) with its defaults (ensure_ascii, separators ", " and  *)
(* ": "); the text is ASCII, so .encode('utf-8') gives one byte a char.    *)
(***************************************************************************)
HexDigit(n) == IF n < 10 THEN 48 + n ELSE 87 + n

u_escape(c) ==
   << 92, 117, HexDigit(c \div 4096), HexDigit((c \div 256) % 16),
      HexDigit((c \div 16) % 16), HexDigit(c % 16) >>

\* ESCAPE_ASCII and its replacement
escape_char(c) ==
   IF c = 34 THEN <<92, 34>>
   ELSE IF c = 92 THEN <<92, 92>>
   ELSE IF c = 10 THEN <<92, 110>>
   ELSE IF c = 13 THEN <<92, 114>>
   ELSE IF c = 9 THEN <<92, 116>>
   ELSE IF c = 8 THEN <<92, 98>>
   ELSE IF c = 12 THEN <<92, 102>>
   ELSE IF c >= 32 /\ c <= 126 THEN <<c>>
   ELSE IF c < 65536 THEN u_escape(c)
   ELSE u_escape(55296 + ((c - 65536) \div 1024)) \o u_escape(56320 + ((c - 65536) % 1024))

encode_str(s) == <<34>> \o Flatten([i \in 1..Len(s) |-> escape_char(s[i])]) \o <<34>>

\* ", ".join(parts)
join(parts) ==
   Flatten([i \in 1..Len(parts) |-> IF i = 1 THEN parts[i] ELSE <<44, 32>> \o parts[i]])

RECURSIVE json_dumps(_)
json_dumps(value) ==
   Let(value, LAMBDA v :
      CASE v.t = "null" -> sNull
        [] v.t = "bool" -> (IF v.b THEN sTrueLit ELSE sFalseLit)
        [] v.t = "int"  -> int_str(v.n)
        [] v.t = "str"  -> encode_str(v.s)
        [] v.t \in {"list", "tuple"} ->
             <<91>> \o join([i \in 1..Len(v.xs) |-> json_dumps(v.xs[i])]) \o <<93>>
        [] v.t = "dict" ->
             <<123>> \o join([i \in 1..Len(v.kv) |->
                               encode_str(v.kv[i].k) \o <<58, 32>> \o json_dumps(v.kv[i].v)])
                     \o <<125>>)

(***************************************************************************)
(* Constants of the program.                                               *)
(***************************************************************************)
kType == Txt(<<"t","y","p","e">>)
kUrl == Txt(<<"u","r","l">>)
kFilename == Txt(<<"f","i","l","e","n","a","m","e">>)
kStatus == Txt(<<"s","t","a","t","u","s">>)
kVersion == Txt(<<"v","e","r","s","i","o","n">>)
kMessage == Txt(<<"m","e","s","s","a","g","e">>)
kSuccess == Txt(<<"s","u","c","c","e","s","s">>)
kConnected == Txt(<<"c","o","n","n","e","c","t","e","d">>)
kAppRunning == Txt(<<"a","p","p","_","r","u","n","n","i","n","g">>)
sEmpty == <<>>
sPing == Txt(<<"p","i","n","g">>)
sPong == Txt(<<"p","o","n","g">>)
sStatus == Txt(<<"s","t","a","t","u","s">>)
sDownload == Txt(<<"d","o","w","n","l","o","a","d">>)
sDownloadResponse == Txt(<<"d","o","w","n","l","o","a","d","_","r","e","s","p","o","n","s","e">>)
sStatusResponse == Txt(<<"s","t","a","t","u","s","_","r","e","s","p","o","n","s","e">>)
sConnected == Txt(<<"c","o","n","n","e","c","t","e","d">>)
sVersion == Txt(<<"1",".","0",".","0">>)
sError == Txt(<<"e","r","r","o","r">>)
sUnknownPrefix == Txt(<<"U","n","k","n","o","w","n"," ","m","e","s","s","a","g","e"," ","t","y","p","e",":"," ">>)

\* app_paths: the candidate bundles, by their place in the list
app_paths ==
   << "/Applications/SwiftFetch.app",
      "/Users/devitripathy/Library/Developer/Xcode/DerivedData/SwiftFetch-hkguncbcnfxahpcsjswpmkdlbqjt/Build/Products/Debug/SwiftFetch.app" >>

\* io.BufferedWriter of sys.stdout: the buffer holds buffer_size bytes at most
buffer_size == 8192

\* item of a dict literal
Item(k, v) == [k |-> k, v |-> v]

(***************************************************************************)
(* The input.  The extension sends frames: a 4-byte length and that many   *)
(* payload bytes.  The stream then closes, at a frame boundary or inside a *)
(* frame (a tail: a length prefix cut short, or a payload cut short).       *)
(***************************************************************************)
MaxFrames == 2
MaxWriteFaults == 1

pPing == Txt(<<"{","\"","t","y","p","e","\"",":","\"","p","i","n","g","\"","}">>)
pStatus == Txt(<<"{","\"","t","y","p","e","\"",":","\"","s","t","a","t","u","s","\"","}">>)
pDownloadU == Txt(<<"{","\"","t","y","p","e","\"",":","\"","d","o","w","n","l","o","a","d","\"",",","\"","u","r","l","\"",":","\"","u","\"","}">>)
pDownload == Txt(<<"{","\"","t","y","p","e","\"",":","\"","d","o","w","n","l","o","a","d","\"","}">>)
pEmptyType == Txt(<<"{","\"","t","y","p","e","\"",":","\"","\"","}">>)
pUnknown == Txt(<<"{","\"","t","y","p","e","\"",":","\"","p","i","n","g","s","\"","}">>)
pNoType == Txt(<<"{","\"","a","\"",":","1","}">>)
pEmptyObj == Txt(<<"{","}">>)
pNull == Txt(<<"n","u","l","l">>)
pDownloadN == Txt(<<"{","\"","t","y","p","e","\"",":","\"","d","o","w","n","l","o","a","d","\"",",","\"","u","r","l","\"",":","7","}">>)
pList == Txt(<<"[","1","]">>)
pBadJson == Txt(<<"{">>)
pPingSp == Txt(<<"{","\"","t","y","p","e","\"",":","\"","p","i","n","g","\"","}"," ">>)
pDownloadSp == Txt(<<"{","\"","t","y","p","e","\"",":","\"","d","o","w","n","l","o","a","d","\"","}"," ">>)
pEmptyObjSp == Txt(<<"{","}"," ">>)
pTen == Txt(<<"1","0">>)
pCut == Txt(<<"{","\"","t","y","p","e","\"",":","\"","p">>)
pBadUtf8 == <<255>>
\* a message whose type is as long as the buffer of sys.stdout
pLong ==
   Txt(<<"{","\"","t","y","p","e","\"",":","\"">>) \o [i \in 1..buffer_size |-> 97]
      \o Txt(<<"\"","}">>)
pEmpty == <<>>

\* payloads of the frames that stand anywhere in an input
Payloads == { pPing, pDownloadU, pEmptyObj, pBadJson, pBadUtf8, pEmpty }

\* payloads of the frames that stand only at the end of an input
LastPayloads ==
   { pStatus, pDownload, pDownloadN, pEmptyType, pUnknown, pNoType, pNull, pList }

\* payloads whose every proper prefix is sent as a cut-short frame
CutPayloads == { pPingSp, pEmptyObjSp, pTen }

\* a chunk of input: hdr bytes of the length prefix of n, then body
Chunk(hdr, n, body) == [hdr |-> hdr, n |-> n, body |-> body]

Frames == { Chunk(4, Len(p), p) : p \in Payloads }

LastFrames == { Chunk(4, Len(p), p) : p \in LastPayloads }

\* what the stream holds when it closes inside a frame
Tails ==
   UNION { { Chunk(4, Len(p), SubSeq(p, 1, k)) : k \in 0..(Len(p) - 1) } : p \in CutPayloads }
   \cup { Chunk(4, Len(pDownloadSp), SubSeq(pDownloadSp, 1, Len(pDownloadSp) - 1)) }
   \cup { Chunk(4, 100, pCut) }
   \cup { Chunk(h, Len(pPing), <<>>) : h \in 1..3 }

ChunkBytes(c) == SubSeq(struct_pack(c.n), 1, c.hdr) \o c.body

IsFrame(c) == c.hdr = 4 /\ Len(c.body) = c.n

SeqsUpTo(S, k) == UNION { [1..m -> S] : m \in 0..k }

\* a session: ping, then status, then a download
Session ==
   << Chunk(4, Len(pPing), pPing), Chunk(4, Len(pStatus), pStatus),
      Chunk(4, Len(pDownloadU), pDownloadU) >>

\* the inputs: up to MaxFrames frames, or a tail alone or after one frame, or the session,
\* or the long message
Inputs ==
   SeqsUpTo(Frames, MaxFrames)
   \cup { Append(f, t) : f \in SeqsUpTo(Frames, MaxFrames - 1), t \in LastFrames }
   \cup { Append(f, t) : f \in SeqsUpTo(Frames, 1), t \in Tails }
   \cup { Session }
   \cup { << Chunk(4, Len(pLong), pLong) >> }

InputBytes(cs) == Flatten([i \in 1..Len(cs) |-> ChunkBytes(cs[i])])

(***************************************************************************)
(* The state of the host process and of its environment.                   *)
(***************************************************************************)
VARIABLES
   chunks,          \* history: the input as it was sent, chunk by chunk
   nread,           \* history: the number of reads that took bytes from the input
   stdin,           \* the bytes of sys.stdin not read yet; the stream closes after them
   pc,              \* where main() is: read, dispatch, download, write, fault, stopped
   raw_length,      \* read_message: the bytes the last read(4) returned
   message,         \* main: the value the last read_message() returned
   msg_type,        \* main: message.get('type', '')
   url,             \* main: message.get('url', '')
   success,         \* main: the result of handle_download
   response,        \* main: the response built for the message
   exc,             \* main: the class of the exception being handled, or "none"
   error_response,  \* main: the response built by the except block
   obuf,            \* sys.stdout.buffer: the bytes written and not flushed yet
   stdout,          \* the bytes the extension has received
   exists,          \* what os.path.exists answered in the last handle_download
   launches,        \* the runs of the open command, in order
   log,             \* the records logged, in order
   wfaults          \* the number of flushes that failed so far

vars ==
   << chunks, nread, stdin, pc, raw_length, message, msg_type, url, success, response,
      exc, error_response, obuf, stdout, exists, launches, log, wfaults >>

Min(a, b) == IF a < b THEN a ELSE b

\* a reader without the test of line 26: the empty read goes to struct.unpack
read_message_unguarded(in) ==
   Let(SubSeq(in, 1, Min(4, Len(in))), LAMBDA raw :
      IF Len(raw) < 4
      THEN [raw |-> raw, stdin |-> From(in, Len(raw) + 1), exc |-> "struct.error",
            val |-> None]
      ELSE Let(struct_unpack(raw), LAMBDA message_length :
         Let(SubSeq(in, 5, Min(4 + message_length, Len(in))), LAMBDA body :
            Let(utf8_decode(body), LAMBDA text :
               LET after == From(in, 4 + Len(body) + 1)
               IN  IF ~text.ok
                   THEN [raw |-> raw, stdin |-> after, exc |-> "UnicodeDecodeError",
                         val |-> None]
                   ELSE Let(json_loads(text.s), LAMBDA val :
                      IF ~val.ok
                      THEN [raw |-> raw, stdin |-> after, exc |-> "JSONDecodeError",
                            val |-> None]
                      ELSE [raw |-> raw, stdin |-> after, exc |-> "none",
                            val |-> val.val])))))

(***************************************************************************)
(* read_message(): read(4) and read(message_length) return fewer bytes     *)
(* only when the stream closes.  The result names the bytes left unread,   *)
(* the exception raised (or "none") and the value returned.                *)
(***************************************************************************)
read_message(in) ==
   Let(SubSeq(in, 1, Min(4, Len(in))), LAMBDA raw :
      IF raw = <<>>
      THEN [raw |-> raw, stdin |-> in, exc |-> "none", val |-> None]
      ELSE IF Len(raw) < 4
      THEN [raw |-> raw, stdin |-> From(in, Len(raw) + 1), exc |-> "struct.error",
            val |-> None]
      ELSE Let(struct_unpack(raw), LAMBDA message_length :
         Let(SubSeq(in, 5, Min(4 + message_length, Len(in))), LAMBDA body :
            Let(utf8_decode(body), LAMBDA text :
               LET after == From(in, 4 + Len(body) + 1)
               IN  IF ~text.ok
                   THEN [raw |-> raw, stdin |-> after, exc |-> "UnicodeDecodeError",
                         val |-> None]
                   ELSE Let(json_loads(text.s), LAMBDA val :
                      IF ~val.ok
                      THEN [raw |-> raw, stdin |-> after, exc |-> "JSONDecodeError",
                            val |-> None]
                      ELSE [raw |-> raw, stdin |-> after, exc |-> "none",
                            val |-> val.val])))))

(***************************************************************************)
(* write_message(message): the length and the payload are written to the  *)
(* buffer of sys.stdout and flush() hands the buffer to the stream.  d is  *)
(* the number of bytes the stream takes before it fails; the call raises   *)
(* when the stream fails.                                                  *)
(***************************************************************************)
Encoded(msg) == json_dumps(msg)

FrameOf(msg) == Let(Encoded(msg), LAMBDA encoded : struct_pack(Len(encoded)) \o encoded)

\* the stream takes bytes until it has taken st.left of them, then fails
raw_write(st, bytes) ==
   IF Len(bytes) <= st.left
   THEN [st EXCEPT !.out = @ \o bytes, !.left = @ - Len(bytes)]
   ELSE [st EXCEPT !.out = @ \o SubSeq(bytes, 1, st.left), !.left = 0, !.ok = FALSE]

\* BufferedWriter.flush(): the bytes the stream did not take stay in the buffer
buffer_flush(st) ==
   IF ~st.ok THEN st
   ELSE [raw_write(st, st.buf) EXCEPT !.buf = From(st.buf, Min(Len(st.buf), st.left) + 1)]

\* BufferedWriter.write(data): data that fits goes to the buffer; otherwise the buffer
\* is flushed first, data longer than the buffer goes to the stream directly, and
\* what an exception interrupts is not kept
buffer_write(st, data) ==
   IF ~st.ok THEN st
   ELSE IF Len(st.buf) + Len(data) <= buffer_size THEN [st EXCEPT !.buf = @ \o data]
   ELSE Let(buffer_flush(st), LAMBDA flushed :
           IF ~flushed.ok THEN flushed
           ELSE IF Len(data) <= buffer_size THEN [flushed EXCEPT !.buf = data]
           ELSE raw_write(flushed, data))

write_message(msg, buf, out, d) ==
   Let(Encoded(msg), LAMBDA encoded :
      Let(buffer_flush(
             buffer_write(
                buffer_write([buf |-> buf, out |-> out, left |-> d, ok |-> TRUE],
                             struct_pack(Len(encoded))),
                encoded)),
          LAMBDA st : [ok |-> st.ok, stdout |-> st.out, obuf |-> st.buf]))

\* the numbers of bytes a failing flush may deliver before it fails
Cuts == {0, 4}

\* the outcomes of a flush of n bytes: n (all delivered), or a failure after d bytes
FlushOutcomes(n, faults) ==
   {n} \cup (IF faults < MaxWriteFaults THEN { d \in Cuts : d < n } ELSE {})

(***************************************************************************)
(* handle_download(url, filename).  ex is the set of candidates that       *)
(* exist, outcome what running the open command does.  The result names    *)
(* the value returned, the runs of the command and the records logged.     *)
(***************************************************************************)
\* exit status 0, CalledProcessError, OSError (no open command, or not permitted)
LaunchOutcomes == {"ok", "nonzero", "oserror"}

\* subprocess.run takes the url as an argument: a str without NUL and surrogates
ArgOk(u) ==
   /\ u.t = "str"
   /\ \A i \in 1..Len(u.s) : u.s[i] # 0 /\ ~(u.s[i] >= 55296 /\ u.s[i] <= 57343)

\* a launcher whose search does not stop at the first candidate found
handle_download_last_found(u, filename, ex, outcome) ==
   LET found == { i \in 1..Len(app_paths) : i \in ex }
       app_path == CHOOSE i \in found : \A j \in found : i >= j
   IN  IF found = {}
       THEN [ret |-> FALSE, run |-> <<>>, log |-> <<>>]
       ELSE IF ~ArgOk(u)
       THEN [ret |-> FALSE, run |-> <<>>, log |-> <<"Error handling download">>]
       ELSE IF outcome = "ok"
       THEN [ret |-> TRUE,
             run |-> << [app |-> app_path, url |-> u, outcome |-> outcome] >>,
             log |-> <<>>]
       ELSE [ret |-> FALSE,
             run |-> << [app |-> app_path, url |-> u, outcome |-> outcome] >>,
             log |-> <<"Error handling download">>]

\* a launcher that runs the command without check=True: the exit status is ignored
handle_download_unchecked(u, filename, ex, outcome) ==
   LET found == { i \in 1..Len(app_paths) : i \in ex }
       app_path == CHOOSE i \in found : \A j \in found : i <= j
   IN  IF found = {}
       THEN [ret |-> FALSE, run |-> <<>>, log |-> <<>>]
       ELSE IF ~ArgOk(u)
       THEN [ret |-> FALSE, run |-> <<>>, log |-> <<"Error handling download">>]
       ELSE IF outcome \in {"ok", "nonzero"}
       THEN [ret |-> TRUE,
             run |-> << [app |-> app_path, url |-> u, outcome |-> outcome] >>,
             log |-> <<>>]
       ELSE [ret |-> FALSE,
             run |-> << [app |-> app_path, url |-> u, outcome |-> outcome] >>,
             log |-> <<"Error handling download">>]

\* a launcher that falls back to the first candidate when none exists
handle_download_fallback(u, filename, ex, outcome) ==
   LET found == { i \in 1..Len(app_paths) : i \in ex }
       app_path == IF found = {} THEN 1 ELSE CHOOSE i \in found : \A j \in found : i <= j
   IN  IF ~ArgOk(u)
       THEN [ret |-> FALSE, run |-> <<>>, log |-> <<"Error handling download">>]
       ELSE IF outcome = "ok"
       THEN [ret |-> TRUE,
             run |-> << [app |-> app_path, url |-> u, outcome |-> outcome] >>,
             log |-> <<>>]
       ELSE [ret |-> FALSE,
             run |-> << [app |-> app_path, url |-> u, outcome |-> outcome] >>,
             log |-> <<"Error handling download">>]

handle_download(u, filename, ex, outcome) ==
   LET found == { i \in 1..Len(app_paths) : i \in ex }
       app_path == CHOOSE i \in found : \A j \in found : i <= j
   IN  IF found = {}
       THEN [ret |-> FALSE, run |-> <<>>, log |-> <<>>]
       ELSE IF ~ArgOk(u)
       THEN [ret |-> FALSE, run |-> <<>>, log |-> <<"Error handling download">>]
       ELSE IF outcome = "ok"
       THEN [ret |-> TRUE,
             run |-> << [app |-> app_path, url |-> u, outcome |-> outcome] >>,
             log |-> <<>>]
       ELSE [ret |-> FALSE,
             run |-> << [app |-> app_path, url |-> u, outcome |-> outcome] >>,
             log |-> <<"Error handling download">>]

(***************************************************************************)
(* The responses of main().                                                *)
(***************************************************************************)
\* a pong that reports another version
Pong_other_version ==
   PyDict(<< Item(kType, PyStr(sPong)), Item(kStatus, PyStr(sConnected)),
             Item(kVersion, PyStr(Txt(<<"1", ".", "0">>))) >>)

Pong ==
   PyDict(<< Item(kType, PyStr(sPong)), Item(kStatus, PyStr(sConnected)),
             Item(kVersion, PyStr(sVersion)) >>)

DownloadResponse(ok, u) ==
   PyDict(<< Item(kType, PyStr(sDownloadResponse)), Item(kSuccess, PyBool(ok)),
             Item(kUrl, u) >>)

\* a status that reports what the last search for the application found
StatusResponse_probed ==
   PyDict(<< Item(kType, PyStr(sStatusResponse)), Item(kConnected, PyBool(TRUE)),
             Item(kAppRunning, PyBool(exists # {})) >>)

StatusResponse ==
   PyDict(<< Item(kType, PyStr(sStatusResponse)), Item(kConnected, PyBool(TRUE)),
             Item(kAppRunning, PyBool(TRUE)) >>)

ErrorResponse(text) ==
   PyDict(<< Item(kType, PyStr(sError)), Item(kMessage, PyStr(text)) >>)

\* an error that does not name the type
UnknownType_unnamed(mt) == ErrorResponse(sUnknownPrefix)

UnknownType(mt) == ErrorResponse(sUnknownPrefix \o py_str(mt))

\* str(e): the text is the library's; the model writes the class of the exception
FaultText(e) ==
   CASE e = "struct.error" -> Txt(<<"s","t","r","u","c","t",".","e","r","r","o","r">>)
     [] e = "UnicodeDecodeError" -> Txt(<<"U","n","i","c","o","d","e","D","e","c","o","d","e","E","r","r","o","r">>)
     [] e = "JSONDecodeError" -> Txt(<<"J","S","O","N","D","e","c","o","d","e","E","r","r","o","r">>)
     [] e = "AttributeError" -> Txt(<<"A","t","t","r","i","b","u","t","e","E","r","r","o","r">>)
     [] e = "BrokenPipeError" -> Txt(<<"B","r","o","k","e","n","P","i","p","e","E","r","r","o","r">>)

IsStr(v, s) == v.t = "str" /\ v.s = s

(***************************************************************************)
(* The process.  Init is the state when main() enters its loop.            *)
(***************************************************************************)
Init ==
   /\ chunks \in Inputs
   /\ stdin = InputBytes(chunks)
   /\ nread = 0
   /\ pc = "read"
   /\ raw_length = <<>>
   /\ message = None
   /\ msg_type = None
   /\ url = None
   /\ success = FALSE
   /\ response = None
   /\ exc = "none"
   /\ error_response = None
   /\ obuf = <<>>
   /\ stdout = <<>>
   /\ exists = {}
   /\ launches = <<>>
   /\ log = <<"Native host started">>
   /\ wfaults = 0

\* main, lines 79-82 and 142: message = read_message(); if not message: break
ReadMessage ==
   /\ pc = "read"
   /\ \E r \in {read_message(stdin)} :
          /\ stdin' = r.stdin
          /\ raw_length' = r.raw
          /\ nread' = IF r.raw = <<>> THEN nread ELSE nread + 1
          /\ IF r.exc # "none"
             THEN /\ exc' = r.exc
                  /\ pc' = "fault"
                  /\ UNCHANGED << message, log >>
             ELSE /\ message' = r.val
                  /\ exc' = exc
                  /\ pc' = IF truthy(r.val) THEN "dispatch" ELSE "stopped"
                  /\ log' = IF truthy(r.val) THEN log ELSE Append(log, "Native host exiting")
   /\ UNCHANGED << chunks, msg_type, url, success, response, error_response, obuf, stdout,
                   exists, launches, wfaults >>

\* main, lines 84-127 but for the calls: the response of each message type
Dispatch ==
   /\ pc = "dispatch"
   /\ log' = Append(log, "Received message")
   /\ IF message.t # "dict"
      THEN /\ exc' = "AttributeError"
           /\ pc' = "fault"
           /\ UNCHANGED << msg_type, url, response >>
      ELSE \E mt \in {dict_get(message, kType, PyStr(sEmpty))} :
               /\ msg_type' = mt
               /\ exc' = exc
               /\ IF IsStr(mt, sPing)
                  THEN response' = Pong /\ pc' = "write" /\ url' = url
                  ELSE IF IsStr(mt, sDownload)
                  THEN /\ url' = dict_get(message, kUrl, PyStr(sEmpty))
                       /\ pc' = "download"
                       /\ response' = response
                  ELSE IF IsStr(mt, sStatus)
                  THEN response' = StatusResponse /\ pc' = "write" /\ url' = url
                  ELSE response' = UnknownType(mt) /\ pc' = "write" /\ url' = url
   /\ UNCHANGED << chunks, nread, stdin, raw_length, message, success, error_response, obuf,
                   stdout, exists, launches, wfaults >>

\* main, lines 101-109, and handle_download
HandleDownload ==
   /\ pc = "download"
   /\ \E ex \in SUBSET (1..Len(app_paths)), outcome \in LaunchOutcomes :
         \E r \in {handle_download(url, dict_get(message, kFilename, PyStr(sEmpty)),
                                  ex, outcome)} :
             /\ exists' = ex
             /\ success' = r.ret
             /\ launches' = launches \o r.run
             /\ log' = log \o r.log
             /\ response' = DownloadResponse(r.ret, url)
   /\ pc' = "write"
   /\ UNCHANGED << chunks, nread, stdin, raw_length, message, msg_type, url, exc,
                   error_response, obuf, stdout, wfaults >>

\* a loop that goes back to reading and leaves the response unwritten
WriteResponse_skipped ==
   /\ pc = "write"
   /\ pc' = "read"
   /\ UNCHANGED << chunks, nread, stdin, raw_length, message, msg_type, url, success,
                   response, exc, error_response, obuf, stdout, exists, launches, log,
                   wfaults >>

\* main, lines 96, 110, 119, 127 and 129: write_message(response)
WriteResponse ==
   /\ pc = "write"
   /\ \E d \in FlushOutcomes(Len(obuf) + Len(FrameOf(response)), wfaults) :
         \E w \in {write_message(response, obuf, stdout, d)} :
             /\ obuf' = w.obuf
             /\ stdout' = w.stdout
             /\ IF w.ok
                THEN /\ pc' = "read"
                     /\ log' = Append(log, "Sent response")
                     /\ UNCHANGED << exc, wfaults >>
                ELSE /\ pc' = "fault"
                     /\ exc' = "BrokenPipeError"
                     /\ wfaults' = wfaults + 1
                     /\ log' = log
   /\ UNCHANGED << chunks, nread, stdin, raw_length, message, msg_type, url, success,
                   response, error_response, exists, launches >>

\* an except block that does not swallow the failure of its own write
HandleFault_unswallowed ==
   /\ pc = "fault"
   /\ log' = Append(log, "Error processing message")
   /\ \E e \in {ErrorResponse(FaultText(exc))} :
         /\ error_response' = e
         /\ \E d \in FlushOutcomes(Len(obuf) + Len(FrameOf(e)), wfaults) :
               \E w \in {write_message(e, obuf, stdout, d)} :
                  /\ obuf' = w.obuf
                  /\ stdout' = w.stdout
                  /\ wfaults' = IF w.ok THEN wfaults ELSE wfaults + 1
                  /\ exc' = IF w.ok THEN "none" ELSE "BrokenPipeError"
                  /\ pc' = IF w.ok THEN "read" ELSE "raised"
   /\ UNCHANGED << chunks, nread, stdin, raw_length, message, msg_type, url, success,
                   response, exists, launches >>

\* a loop without the except block: the exception ends main()
HandleFault_uncaught ==
   /\ pc = "fault"
   /\ pc' = "stopped"
   /\ UNCHANGED << chunks, nread, stdin, raw_length, message, msg_type, url, success,
                   response, exc, error_response, obuf, stdout, exists, launches, log,
                   wfaults >>

\* main, lines 131-140: the except block; a failure of its write is swallowed
HandleFault ==
   /\ pc = "fault"
   /\ log' = Append(log, "Error processing message")
   /\ \E e \in {ErrorResponse(FaultText(exc))} :
         /\ error_response' = e
         /\ \E d \in FlushOutcomes(Len(obuf) + Len(FrameOf(e)), wfaults) :
               \E w \in {write_message(e, obuf, stdout, d)} :
                  /\ obuf' = w.obuf
                  /\ stdout' = w.stdout
                  /\ wfaults' = IF w.ok THEN wfaults ELSE wfaults + 1
   /\ exc' = "none"
   /\ pc' = "read"
   /\ UNCHANGED << chunks, nread, stdin, raw_length, message, msg_type, url, success,
                   response, exists, launches >>

Next == ReadMessage \/ Dispatch \/ HandleDownload \/ WriteResponse \/ HandleFault

Spec == Init /\ [][Next]_vars

\* the process runs on: every call made in an iteration returns
SpecFair == Spec /\ WF_vars(Next)

(***************************************************************************)
(* The codec alone: write_message(v) writes a frame, the frame and what    *)
(* follows it are the input of read_message().  message is the value       *)
(* written, stdout the bytes written, chunks the frames that follow,       *)
(* response the value read.                                                *)
(***************************************************************************)
MaxItems == 2

Atoms ==
   { None, PyBool(FALSE), PyInt(0 - 7), PyStr(<<>>), PyStr(<<233, 34, 10>>),
     PyStr(<<128512>>) }

Keys == << kType, kUrl, <<233>> >>

ItemSeqs == UNION { [1..n -> Atoms] : n \in 0..MaxItems }

\* the values written: lists, tuples and dicts of atoms, and some nested ones
Values ==
   Atoms
   \cup { PyList(xs) : xs \in ItemSeqs }
   \cup { PyTuple(xs) : xs \in ItemSeqs }
   \cup { PyDict([i \in 1..Len(xs) |-> Item(Keys[i], xs[i])]) : xs \in ItemSeqs }
   \cup { PyList(<< PyList(<< PyInt(1) >>), PyDict(<< Item(kUrl, None) >>) >>),
          PyDict(<< Item(kType, PyDict(<< Item(kType, PyList(<<>>)) >>)) >>),
          PyList(<< PyTuple(<< PyInt(1) >>) >>),
          PyDict(<< Item(kUrl, PyTuple(<<>>)) >>) }

Following == { <<>>, << Chunk(4, Len(pPing), pPing) >> }

InitCodec ==
   /\ message \in Values
   /\ chunks \in Following
   /\ pc = "encode"
   /\ stdin = <<>>
   /\ stdout = <<>>
   /\ obuf = <<>>
   /\ nread = 0
   /\ raw_length = <<>>
   /\ msg_type = None
   /\ url = None
   /\ success = FALSE
   /\ response = None
   /\ exc = "none"
   /\ error_response = None
   /\ exists = {}
   /\ launches = <<>>
   /\ log = <<>>
   /\ wfaults = 0

\* write_message(message), every byte delivered; the pipe then holds the frame and
\* the frames that follow
Encode ==
   /\ pc = "encode"
   /\ \E w \in {write_message(message, obuf, stdout, Len(obuf) + Len(FrameOf(message)))} :
          /\ stdout' = w.stdout
          /\ obuf' = w.obuf
          /\ stdin' = w.stdout \o InputBytes(chunks)
   /\ pc' = "decode"
   /\ UNCHANGED << chunks, nread, raw_length, message, msg_type, url, success, response,
                   exc, error_response, exists, launches, log, wfaults >>

\* read_message() on the pipe
Decode ==
   /\ pc = "decode"
   /\ \E r \in {read_message(stdin)} :
          /\ stdin' = r.stdin
          /\ raw_length' = r.raw
          /\ exc' = r.exc
          /\ response' = r.val
   /\ pc' = "done"
   /\ UNCHANGED << chunks, nread, message, msg_type, url, success, error_response, obuf,
                   stdout, exists, launches, log, wfaults >>

NextCodec == Encode \/ Decode

SpecCodec == InitCodec /\ [][NextCodec]_vars

(***************************************************************************)
(* What the properties below speak of.                                     *)
(***************************************************************************)
\* the chunk the last read took its bytes from, and the chunks not read yet
Cur == chunks[nread]
Rest == SubSeq(chunks, nread + 1, Len(chunks))

\* the next read starts at the first byte of the next chunk
InSync == stdin = InputBytes(Rest)

\* the next chunk is a frame with payload p
NextIs(p) == nread < Len(chunks) /\ chunks[nread + 1] = Chunk(4, Len(p), p)

\* a payload cut short by the closing of the stream
Truncated(c) == c.hdr = 4 /\ Len(c.body) < c.n

HasKey(m, k) == \E i \in 1..Len(m.kv) : m.kv[i].k = k

\* the message being handled was read in this iteration and is a value m
Handling == pc \in {"dispatch", "download", "write"}

ReadFaults == {"struct.error", "UnicodeDecodeError", "JSONDecodeError"}

\* the responses as the extension receives them: the JSON texts, byte for byte
tPong ==
   Txt(<<"{","\"","t","y","p","e","\"",":"," ","\"","p","o","n","g","\"",","," ","\"",
         "s","t","a","t","u","s","\"",":"," ","\"","c","o","n","n","e","c","t","e","d",
         "\"",","," ","\"","v","e","r","s","i","o","n","\"",":"," ","\"","1",".","0",
         ".","0","\"","}">>)

tStatusResponse ==
   Txt(<<"{","\"","t","y","p","e","\"",":"," ","\"","s","t","a","t","u","s","_","r","e",
         "s","p","o","n","s","e","\"",","," ","\"","c","o","n","n","e","c","t","e","d",
         "\"",":"," ","t","r","u","e",","," ","\"","a","p","p","_","r","u","n","n","i",
         "n","g","\"",":"," ","t","r","u","e","}">>)

tUnknownHead ==
   Txt(<<"{","\"","t","y","p","e","\"",":"," ","\"","e","r","r","o","r","\"",","," ",
         "\"","m","e","s","s","a","g","e","\"",":"," ","\"","U","n","k","n","o","w","n",
         " ","m","e","s","s","a","g","e"," ","t","y","p","e",":"," ">>)

tUnknownTail ==
   Txt(<<"\"","}">>)

tUnknown(t) == tUnknownHead \o t \o tUnknownTail

\* a frame on the wire: the length in four bytes, then the text
Wire(text) ==
   << Len(text) % 256, (Len(text) \div 256) % 256,
      (Len(text) \div 65536) % 256, (Len(text) \div 16777216) % 256 >> \o text

\* the text that answers a frame with payload p, for the payloads that launch nothing
Expected(p) ==
   CASE p = pPing -> tPong
     [] p = pStatus -> tStatusResponse
     [] p = pEmptyType -> tUnknown(<<>>)
     [] p = pUnknown -> tUnknown(Txt(<<"p","i","n","g","s">>))
     [] p = pNoType -> tUnknown(<<>>)

\* the payloads of the complete frames at the head of a byte sequence
RECURSIVE OutPayloads(_)
OutPayloads(bytes) ==
   Let(bytes, LAMBDA b :
      IF Len(b) < 4 \/ Len(b) < 4 + struct_unpack(b) THEN <<>>
      ELSE <<SubSeq(b, 5, 4 + struct_unpack(b))>> \o OutPayloads(From(b, 5 + struct_unpack(b))))

\* the payload is the JSON text of an object whose type is error
ErrorTyped(payload) ==
   Let(json_loads(payload), LAMBDA r :
      r.ok /\ r.val.t = "dict" /\ IsStr(dict_get(r.val, kType, None), sError))

ErrorCount(bytes) ==
   Cardinality({ i \in 1..Len(OutPayloads(bytes)) : ErrorTyped(OutPayloads(bytes)[i]) })

(***************************************************************************)
(* C1: the loop stops only when the read of the length prefix yields no    *)
(* bytes, that is at the end of the input stream; no frame that was read   *)
(* stops it.                                                               *)
(***************************************************************************)
C1_StopsOnlyAtEndOfStream == pc = "stopped" => raw_length = <<>>

(***************************************************************************)
(* C2: a message that is an object without a type key is handled as a      *)
(* message of type "": the loop goes on and the response is the error      *)
(* "Unknown message type: ".                                               *)
(***************************************************************************)
NoTypeObject(m) == m.t = "dict" /\ ~HasKey(m, kType)

C2_NoTypeIsUnknownType ==
   /\ (pc = "stopped" /\ raw_length # <<>>) => ~NoTypeObject(message)
   /\ (pc = "write" /\ NoTypeObject(message)) => response = ErrorResponse(sUnknownPrefix)
   /\ (pc = "download") => ~NoTypeObject(message)

(***************************************************************************)
(* C3: a fault in reading a frame (a short prefix, a payload that is not    *)
(* UTF-8, a text that is not JSON) is answered with one error response     *)
(* that carries the description of the fault, and the loop reads on: the   *)
(* next read starts at the first byte after the faulty frame, so that the  *)
(* frame that follows is decoded as it was sent and answered as it is      *)
(* answered when it comes first.  (The answer reaches the extension when   *)
(* the flush of the output does not fail.)                                 *)
(***************************************************************************)
C3_FaultAnswered ==
   pc = "fault" /\ exc \in ReadFaults
      => /\ pc' = "read"
         /\ exc' = "none"
         /\ error_response' =
               PyDict(<< Item(kType, PyStr(sError)), Item(kMessage, PyStr(FaultText(exc))) >>)
         /\ stdout' \o obuf' = stdout \o obuf \o FrameOf(error_response')
         /\ stdin' = stdin
         /\ launches' = launches

\* a whole frame whose payload is not UTF-8, is not JSON, or is empty
FaultyFrame(c) == \E p \in {pBadJson, pBadUtf8, pEmpty} : c = Chunk(4, Len(p), p)

C3_NextFrameAnswered ==
   /\ pc = "read" /\ nread >= 1 /\ nread < Len(chunks) /\ FaultyFrame(Cur)
         => \A p \in {pPing, pStatus, pEmptyType, pUnknown, pNoType} :
               NextIs(p) => pc' = "dispatch" /\ message' = json_loads(utf8_decode(p).s).val
   /\ pc = "write" /\ pc' = "read" /\ nread >= 2 /\ FaultyFrame(chunks[nread - 1])
         => \A p \in {pPing, pStatus, pEmptyType, pUnknown, pNoType} :
               Cur = Chunk(4, Len(p), p)
                  => obuf' = <<>> /\ stdout' = stdout \o obuf \o Wire(Expected(p))

C3_ReadFaultRecovered ==
   /\ [](pc = "read" => InSync)
   /\ [][C3_FaultAnswered]_vars
   /\ [][C3_NextFrameAnswered]_vars

C3_Witness ==
   /\ pc = "read"
   /\ nread = 2
   /\ chunks[1] = Chunk(4, Len(pBadJson), pBadJson)
   /\ chunks[2] = Chunk(4, Len(pPing), pPing)
   /\ stdout = FrameOf(ErrorResponse(FaultText("JSONDecodeError"))) \o Wire(tPong)
   /\ obuf = <<>>

(***************************************************************************)
(* C4: a payload that the closing of the stream cuts short of its declared *)
(* length is a read fault: its bytes are never dispatched as a message and *)
(* never stop the loop as an empty message.                                *)
(***************************************************************************)
C4_TruncatedFrameIsAFault ==
   (nread >= 1 /\ Truncated(Cur))
      => /\ ~Handling
         /\ ~(pc = "stopped" /\ raw_length # <<>>)

(***************************************************************************)
(* C5: when the stream closes inside a frame, the host answers with at     *)
(* most one error response and then stops through the end-of-stream path   *)
(* of the next read: the read that stops the loop is the one that yields   *)
(* no bytes.                                                               *)
(***************************************************************************)
C5_StreamClosedInsideFrame ==
   (Len(chunks) = 1 /\ Truncated(chunks[1]) /\ pc = "stopped")
      => /\ raw_length = <<>>
         /\ ErrorCount(stdout \o obuf) <= 1

(***************************************************************************)
(* C6: every ping frame is decoded to the ping message and answered with   *)
(* the frame of exactly the text                                           *)
(* {"type": "pong", "status": "connected", "version": "1.0.0"}, whatever   *)
(* was handled before; nothing is launched.  (The frame reaches the        *)
(* extension when the flush of the output does not fail.)                  *)
(***************************************************************************)
PingMessage == PyDict(<< Item(kType, PyStr(sPing)) >>)

C6_PingStep ==
   /\ pc = "read" /\ NextIs(pPing) => pc' = "dispatch" /\ message' = PingMessage
   /\ pc = "dispatch" /\ message = PingMessage
         => /\ pc' = "write"
            /\ json_dumps(response') = tPong
            /\ launches' = launches
   /\ pc = "write" /\ message = PingMessage
         => /\ json_dumps(response) = tPong
            /\ launches' = launches
            /\ pc' = "read" => obuf' = <<>> /\ stdout' = stdout \o obuf \o Wire(tPong)

C6_PingAnsweredWithPong == [][C6_PingStep]_vars

C6_Witness ==
   /\ pc = "read"
   /\ nread = 2
   /\ chunks = << Chunk(4, Len(pPing), pPing), Chunk(4, Len(pPing), pPing) >>
   /\ stdout = Wire(tPong) \o Wire(tPong)
   /\ obuf = <<>>

(***************************************************************************)
(* C7: a message whose type is a string other than ping, download and      *)
(* status (the empty string too) is answered with the error response       *)
(* "Unknown message type: " followed by the type; nothing is launched and  *)
(* the loop goes on.                                                       *)
(***************************************************************************)
UnknownTypeMessage(m) ==
   /\ m.t = "dict"
   /\ HasKey(m, kType)
   /\ dict_get(m, kType, None).t = "str"
   /\ dict_get(m, kType, None).s \notin {sPing, sDownload, sStatus}

C7_UnknownStep ==
   /\ \A p \in {pEmptyType, pUnknown} :
         pc = "read" /\ NextIs(p) => pc' = "dispatch" /\ UnknownTypeMessage(message')
   /\ pc = "dispatch" /\ UnknownTypeMessage(message)
         => /\ pc' = "write"
            /\ json_dumps(response') = tUnknown(dict_get(message, kType, None).s)
            /\ launches' = launches
   /\ pc = "write" /\ UnknownTypeMessage(message)
         => /\ launches' = launches
            /\ pc' \in {"read", "fault"}
            /\ pc' = "read"
                  => /\ obuf' = <<>>
                     /\ stdout' = stdout \o obuf
                                     \o Wire(tUnknown(dict_get(message, kType, None).s))

C7_UnknownTypeAnswered ==
   /\ [][C7_UnknownStep]_vars
   /\ [](UnknownTypeMessage(message) /\ raw_length # <<>> => pc # "stopped")

C7_Witness ==
   /\ pc = "read"
   /\ nread = 2
   /\ chunks[1] = Chunk(4, Len(pPing), pPing)
   /\ chunks[2] = Chunk(4, Len(pUnknown), pUnknown)
   /\ stdout = Wire(tPong) \o Wire(tUnknown(Txt(<<"p","i","n","g","s">>)))
   /\ launches = <<>>

(***************************************************************************)
(* C8: a download message without a url has no usable target: nothing is   *)
(* launched and the response is the download_response with success false   *)
(* and url "".                                                             *)
(***************************************************************************)
DownloadMessage(m) == m.t = "dict" /\ IsStr(dict_get(m, kType, PyStr(sEmpty)), sDownload)

C8_DownloadWithoutUrlFails ==
   (pc = "write" /\ DownloadMessage(message) /\ ~HasKey(message, kUrl))
      => /\ response = DownloadResponse(FALSE, PyStr(sEmpty))
         /\ launches = <<>>

(***************************************************************************)
(* C9: every download message is answered with a download_response that    *)
(* echoes the url of the message; success is true exactly when the open    *)
(* command was run and exited with status 0.  A launch that fails (no      *)
(* application, nonzero exit, no open command) is neither a fault nor an   *)
(* error response.                                                         *)
(***************************************************************************)
LastLaunchOk ==
   /\ Len(launches') = Len(launches) + 1
   /\ launches'[Len(launches')].outcome = "ok"
   /\ launches'[Len(launches')].url = dict_get(message, kUrl, PyStr(sEmpty))

C9_DownloadStep ==
   /\ pc = "dispatch" /\ DownloadMessage(message) => pc' = "download" /\ exc' = exc
   /\ pc = "download"
         => /\ DownloadMessage(message)
            /\ pc' = "write"
            /\ exc' = exc
            /\ response' =
                  PyDict(<< Item(kType, PyStr(sDownloadResponse)),
                            Item(kSuccess, PyBool(success')),
                            Item(kUrl, dict_get(message, kUrl, PyStr(sEmpty))) >>)
            /\ success' <=> LastLaunchOk
            /\ ~success' => Len(launches') <= Len(launches) + 1
            /\ SubSeq(launches', 1, Len(launches)) = launches

C9_DownloadAnswered == [][C9_DownloadStep]_vars

C9_Witness ==
   /\ pc = "read"
   /\ nread = 1
   /\ chunks[1] = Chunk(4, Len(pDownloadU), pDownloadU)
   /\ Len(launches) = 1
   /\ launches[1].outcome = "nonzero"
   /\ OutPayloads(stdout) = << json_dumps(DownloadResponse(FALSE, PyStr(Txt(<<"u">>)))) >>

(***************************************************************************)
(* C10: when none of the candidate application paths exists the download   *)
(* fails at once: success is false, the open command is not run, nothing   *)
(* is logged and nothing is read or written.                               *)
(***************************************************************************)
C10_NoAppStep ==
   pc = "download" /\ exists' = {}
      => /\ success' = FALSE
         /\ launches' = launches
         /\ log' = log
         /\ UNCHANGED << stdin, stdout, obuf, nread >>
         /\ response' = DownloadResponse(FALSE, url)

C10_NoApplicationNoLaunch == [][C10_NoAppStep]_vars

C10_Witness ==
   /\ pc = "write"
   /\ nread = 1
   /\ chunks[1] = Chunk(4, Len(pDownloadU), pDownloadU)
   /\ exists = {}
   /\ success = FALSE
   /\ launches = <<>>
   /\ response = DownloadResponse(FALSE, PyStr(Txt(<<"u">>)))

(***************************************************************************)
(* C11: reads and responses alternate.  Bytes are taken from the input     *)
(* only by the read at the head of an iteration; the loop comes back to    *)
(* that read only from the write of the response or from the fault path;   *)
(* the open command runs only in the handling of a download, before its    *)
(* response is written.  So, while no flush fails, the extension has       *)
(* received one response per frame read, in the order of the frames.  The  *)
(* session ping, status, download of u with no application installed       *)
(* yields pong, status_response and the download_response with success     *)
(* false and url u.                                                        *)
(***************************************************************************)
tDownloadFailedU ==
   Txt(<<"{","\"","t","y","p","e","\"",":"," ","\"","d","o","w","n","l","o","a","d","_",
         "r","e","s","p","o","n","s","e","\"",","," ","\"","s","u","c","c","e","s","s",
         "\"",":"," ","f","a","l","s","e",","," ","\"","u","r","l","\"",":"," ","\"",
         "u","\"","}">>)

C11_Step ==
   /\ (nread' # nread \/ stdin' # stdin) => pc = "read"
   /\ (pc' = "read" /\ pc # "read") => pc \in {"write", "fault"}
   /\ (pc = "write" /\ pc' = "read")
         => stdout' \o obuf' = stdout \o obuf \o FrameOf(response)
   /\ launches' # launches => pc = "download" /\ pc' = "write"
   /\ (stdout' # stdout \/ obuf' # obuf) => pc \in {"write", "fault"}

C11_InOrder ==
   (pc = "read" /\ wfaults = 0)
      => /\ obuf = <<>>
         /\ Len(OutPayloads(stdout)) = nread
         /\ \A i \in 1..nread :
               \A p \in {pPing, pStatus, pEmptyType, pUnknown, pNoType} :
                  chunks[i] = Chunk(4, Len(p), p) => OutPayloads(stdout)[i] = Expected(p)

C11_SessionAnswered ==
   (chunks = Session /\ pc = "stopped" /\ wfaults = 0 /\ exists = {})
      => stdout = Wire(tPong) \o Wire(tStatusResponse) \o Wire(tDownloadFailedU)

C11_ResponsesInRequestOrder ==
   /\ [][C11_Step]_vars
   /\ [](C11_InOrder /\ C11_SessionAnswered)

C11_Witness ==
   /\ chunks = Session
   /\ pc = "stopped"
   /\ nread = 3
   /\ launches = <<>>
   /\ stdout = Wire(tPong) \o Wire(tStatusResponse) \o Wire(tDownloadFailedU)

(***************************************************************************)
(* C12: when the stream is closed with no byte pending, the read yields    *)
(* no bytes and the loop exits: this step writes nothing, builds no error  *)
(* response, raises nothing and launches nothing, and no step follows it.  *)
(***************************************************************************)
C12_Step ==
   /\ (pc = "read" /\ stdin = <<>>)
         => /\ pc' = "stopped"
            /\ raw_length' = <<>>
            /\ exc' = exc
            /\ log' = Append(log, "Native host exiting")
            /\ UNCHANGED << stdout, obuf, error_response, response, launches, wfaults, nread >>
   /\ pc # "stopped"

C12_CleanExitAtEndOfStream ==
   /\ [][C12_Step]_vars
   /\ [](pc = "stopped" => exc = "none")

C12_Witness ==
   /\ pc = "stopped"
   /\ raw_length = <<>>
   /\ chunks = << Chunk(4, Len(pPing), pPing) >>
   /\ nread = 1
   /\ stdout = Wire(tPong)
   /\ log = << "Native host started", "Received message", "Sent response",
               "Native host exiting" >>

(***************************************************************************)
(* C13: round trip of the codec.  The bytes that write_message(v) writes   *)
(* are a 4-byte length equal to the number of payload bytes and the        *)
(* payload, a UTF-8 JSON text; read_message() reads from them a value      *)
(* equal to v and leaves the frames that follow unread.                    *)
(*                                                                         *)
(* C13_RoundTripOfEveryValue states it of every value json.dumps accepts.  *)
(* C13_RoundTripOfJsonValues states it of the values built of null,        *)
(* booleans, integers, strings, lists and dicts with string keys.          *)
(***************************************************************************)
RECURSIVE HasTuple(_)
HasTuple(v) ==
   CASE v.t = "tuple" -> TRUE
     [] v.t = "list" -> \E i \in 1..Len(v.xs) : HasTuple(v.xs[i])
     [] v.t = "dict" -> \E i \in 1..Len(v.kv) : HasTuple(v.kv[i].v)
     [] OTHER -> FALSE

FramedAsWritten ==
   /\ Len(stdout) >= 4
   /\ struct_unpack(SubSeq(stdout, 1, 4)) = Len(stdout) - 4
   /\ utf8_decode(From(stdout, 5)).ok
   /\ From(stdout, 5) = json_dumps(message)

ReadBack ==
   /\ exc = "none"
   /\ response = message
   /\ raw_length = SubSeq(stdout, 1, 4)
   /\ stdin = InputBytes(chunks)

StatusMessage == PyDict(<< Item(kType, PyStr(sStatus)) >>)

C14_StatusStep ==
   /\ pc = "read" /\ NextIs(pStatus) => pc' = "dispatch" /\ message' = StatusMessage
   /\ pc = "dispatch" /\ message = StatusMessage
         => /\ pc' = "write"
            /\ json_dumps(response') = tStatusResponse
            /\ UNCHANGED << launches, exists, success >>
   /\ pc = "write" /\ message = StatusMessage
         => /\ json_dumps(response) = tStatusResponse
            /\ UNCHANGED << launches, exists, success >>
            /\ pc' = "read"
                  => obuf' = <<>> /\ stdout' = stdout \o obuf \o Wire(tStatusResponse)

C14_StatusAnsweredStatically == [][C14_StatusStep]_vars

C14_Witness ==
   /\ pc = "read"
   /\ nread = 2
   /\ chunks = << Chunk(4, Len(pDownloadU), pDownloadU), Chunk(4, Len(pStatus), pStatus) >>
   /\ exists = {}
   /\ success = FALSE
   /\ launches = <<>>
   /\ OutPayloads(stdout) = << tDownloadFailedU, tStatusResponse >>

(***************************************************************************)
(* C15: the extension receives at most one response frame for each frame   *)
(* the host has read, also when the write of a response fails and the      *)
(* fault path writes an error response.                                    *)
(***************************************************************************)
C15_AtMostOneResponsePerFrame == Len(OutPayloads(stdout)) <= nread

(***************************************************************************)
(* C16: the bytes the extension has received are complete frames, each a   *)
(* 4-byte length N and N bytes that are the JSON text of an object with a  *)
(* type, followed at most by a prefix of the frame of the response being   *)
(* written; a length is never followed by the bytes of another response.   *)
(***************************************************************************)
TypedObject(payload) ==
   Let(utf8_decode(payload), LAMBDA text :
      text.ok /\ Let(json_loads(text.s), LAMBDA r :
                    r.ok /\ r.val.t = "dict" /\ HasKey(r.val, kType)))

IsPrefix(a, b) == Len(a) <= Len(b) /\ a = SubSeq(b, 1, Len(a))

\* the bytes are the head of the frame of the response or of the error response
HeadOfResponse(bytes) ==
   \E r \in {response, error_response} :
      r # None /\ IsPrefix(bytes, FrameOf(r))

RECURSIVE FramesThenHead(_)
FramesThenHead(bytes) ==
   Let(bytes, LAMBDA b :
      IF Len(b) < 4 THEN TRUE
      ELSE IF Len(b) < 4 + struct_unpack(b) THEN HeadOfResponse(b)
      ELSE /\ TypedObject(SubSeq(b, 5, 4 + struct_unpack(b)))
           /\ FramesThenHead(From(b, 5 + struct_unpack(b))))

C16_OutputIsFrames == FramesThenHead(stdout)

(***************************************************************************)
(* C17: iterations are independent.  Whether and how a well-formed frame   *)
(* is handled does not depend on the frames before it: every well-formed   *)
(* frame of the input is read and handled before the host stops, and the   *)
(* message decoded and the text of the response are functions of the       *)
(* frame and of the outcome of the launch in this iteration alone.         *)
(***************************************************************************)
tDownloadTrue ==
   Txt(<<"{","\"","t","y","p","e","\"",":"," ","\"","d","o","w","n","l","o","a","d","_",
         "r","e","s","p","o","n","s","e","\"",","," ","\"","s","u","c","c","e","s","s",
         "\"",":"," ","t","r","u","e",","," ","\"","u","r","l","\"",":"," ">>)

tDownloadFalse ==
   Txt(<<"{","\"","t","y","p","e","\"",":"," ","\"","d","o","w","n","l","o","a","d","_",
         "r","e","s","p","o","n","s","e","\"",","," ","\"","s","u","c","c","e","s","s",
         "\"",":"," ","f","a","l","s","e",","," ","\"","u","r","l","\"",":"," ">>)

\* the url of a download payload, as the response echoes it
UrlText(p) ==
   CASE p = pDownloadU -> Txt(<<"\"","u","\"">>)
     [] p = pDownload -> Txt(<<"\"","\"">>)
     [] p = pDownloadN -> Txt(<<"7">>)

DownloadText(p, ok) == (IF ok THEN tDownloadTrue ELSE tDownloadFalse) \o UrlText(p) \o <<125>>

C17_IterationsIndependent ==
   /\ pc = "stopped" => \A k \in 1..Len(chunks) : IsFrame(chunks[k]) => k <= nread
   /\ \A p \in {pPing, pStatus, pEmptyType, pUnknown, pNoType, pDownloadU, pDownload,
               pDownloadN} :
         (Handling /\ Cur = Chunk(4, Len(p), p))
            => message = json_loads(utf8_decode(p).s).val
   /\ \A p \in {pPing, pStatus, pEmptyType, pUnknown, pNoType} :
         (pc = "write" /\ Cur = Chunk(4, Len(p), p)) => json_dumps(response) = Expected(p)
   /\ \A p \in {pDownloadU, pDownload, pDownloadN} :
         (pc = "write" /\ Cur = Chunk(4, Len(p), p))
            => json_dumps(response) = DownloadText(p, success)

(***************************************************************************)
(* C18: the open command is run for the first candidate that exists: for   *)
(* every set of existing candidates and every url that is a string the     *)
(* command takes (no NUL in it), the command runs once, its application is *)
(* the candidate of lowest index                                           *)
(* among those that exist, never a later one, and its url is the url of    *)
(* the message, unchanged.                                                 *)
(***************************************************************************)
C18_Step ==
   pc = "download"
      => /\ (exists' # {} /\ ArgOk(url)) => Len(launches') = Len(launches) + 1
         /\ launches' # launches
               => /\ Len(launches') = Len(launches) + 1
                  /\ SubSeq(launches', 1, Len(launches)) = launches
                  /\ launches'[Len(launches')].app \in exists'
                  /\ \A j \in exists' : launches'[Len(launches')].app <= j
                  /\ launches'[Len(launches')].url = dict_get(message, kUrl, PyStr(sEmpty))

C18_FirstExistingCandidate == [][C18_Step]_vars

C18_Witness ==
   /\ pc = "write"
   /\ nread = 2
   /\ Len(launches) = 2
   /\ launches[1].app = 2
   /\ exists = {1, 2}
   /\ launches[2].app = 1
   /\ launches[2].url = PyStr(Txt(<<"u">>))

(***************************************************************************)
(* C19: for every input, when every call of an iteration returns, the host *)
(* reaches Stopped.  A read that does not stop the loop takes at least one *)
(* byte from the input, nothing gives bytes back, and the fault path goes  *)
(* back to the read also when its own write fails.                         *)
(***************************************************************************)
C19_Step ==
   /\ (pc = "read" /\ pc' # "stopped") => Len(stdin') < Len(stdin)
   /\ Len(stdin') <= Len(stdin)
   /\ pc = "fault" => pc' = "read" /\ exc' = "none"
   /\ pc = "write" => pc' \in {"read", "fault"}

C19_ReachesStopped ==
   /\ [][C19_Step]_vars
   /\ <>(pc = "stopped")

C19_Witness ==
   /\ pc = "stopped"
   /\ raw_length = <<>>
   /\ nread = 1
   /\ chunks = << Chunk(4, Len(pBadJson), pBadJson) >>
   /\ wfaults = 1
   /\ stdout = <<>>

(***************************************************************************)
(* C20: the open command is run at most once for each frame of type        *)
(* download and for no other frame, a faulty frame (one cut short) least   *)
(* of all: the number of runs is at most the number of complete download   *)
(* frames read so far, and the run for a frame is made before the          *)
(* response to the frame is written.                                       *)
(***************************************************************************)
\* the chunk is a complete frame whose payload is a message of type download
DownloadFrame(c) ==
   /\ IsFrame(c)
   /\ Let(read_message(ChunkBytes(c)), LAMBDA r : r.exc = "none" /\ DownloadMessage(r.val))

DownloadFramesRead == Cardinality({ i \in 1..nread : DownloadFrame(chunks[i]) })

C20_LaunchOnlyForDownloadFrames ==
   /\ Len(launches) <= DownloadFramesRead
   /\ (pc \in {"dispatch", "download"} /\ DownloadFrame(Cur))
         => Len(launches) <= DownloadFramesRead - 1

=============================================================================
